---- MODULE Spec2Model ----
(***************************************************************************)
(* A model of simple_file_handler.FileHandler: one session object bound to *)
(* a path on a small file system.  File contents are sequences of string   *)
(* tokens; file names are sequences of name tokens joined by "_".          *)
(***************************************************************************)
EXTENDS Integers, Sequences, FiniteSets, TLC

VARIABLES
    disk,          \* the file system: existing path -> content on disk
    pc,            \* "new" before __init__, "live" after it, "failed" if it raised
    filepath,      \* self.filepath
    allow_any,     \* self.allow_any
    created_file,  \* self.created_file
    file,          \* self._file: a handle record, or None
    ret            \* the last call and its outcome: [op, arg, err, val]

vars == <<disk, pc, filepath, allow_any, created_file, file, ret>>

----------------------------------------------------------------------------
(* Bounds *)

MaxLen == 2          \* longest raw text content, in characters
MaxJsonLen == 8      \* longest JSON text, in tokens (two one-member documents)
MaxFiles == 3        \* most files on disk in the copy specification
MaxMoveFiles == 2    \* most files on disk in the move specification
MaxSuffix == 1       \* largest numeric suffix a caller passes to make_copy
MaxCodecLen == 10    \* longest csv, yaml, toml or pickle content, in tokens

----------------------------------------------------------------------------
(* Names and paths *)

Dirs == {"d1", "d2"}

\* One component of a file name: a word or a run of digits (an integer).
Word(s) == [s |-> s, n |-> 0]
Num(n) == [s |-> "", n |-> n]
IsNum(t) == t.s = ""

Path(d, name, ext) == [dir |-> d, name |-> name, ext |-> ext]

\* FileHandler.filetype: lower-cased extension with the alias folding.
filetype(p) ==
    IF p.ext \in {"yaml", "yml"} THEN "yaml"
    ELSE IF p.ext \in {"pickle", "pkl"} THEN "pickle"
    ELSE p.ext

\* FileHandler.supported_types
supported_types ==
    {"txt", "doc", "docx", "pdf", "html", "htm", "xml", "js", "css", "md",
     "json", "csv", "yaml", "yml", "toml", "pickle", "pkl", "log", "xht",
     "xhtml", "shtml"}

\* The attributes getattr(self, '_read_<filetype>') finds on the class.
ReadMethods == {"json", "csv", "yaml", "pickle", "toml"}

\* The attributes getattr(self, '_write_<filetype>') finds on the class:
\* the codecs, and _write_content itself.
WriteMethods == {"json", "csv", "yaml", "pickle", "toml", "content"}

file_dir(p) == p.dir
file_basename(p) == p.name
file_ext(p) == p.ext

----------------------------------------------------------------------------
(* Modes of the built-in open() *)

ReadModes == {"r", "r+", "rb", "rb+"}
TruncModes == {"w", "w+", "wb", "wb+"}
AppendModes == {"a", "a+", "ab", "ab+"}
ExclModes == {"x", "x+", "xb", "xb+"}
BadModes == {"", "rw"}
OpenableModes == ReadModes \cup TruncModes \cup AppendModes \cup ExclModes
AllModes == OpenableModes \cup BadModes

IsBinary(m) == m \in {"rb", "rb+", "wb", "wb+", "ab", "ab+", "xb", "xb+"}

\* The .mode attribute of the object open() returns: the text wrapper keeps
\* the requested string, a binary file opened 'wb+' reports 'rb+'.
ReportedMode(m) == IF m = "wb+" THEN "rb+" ELSE m

\* 'w' in mode, 'a' in mode, 'x' in mode, 'r' in mode
HasW(m) == m \in TruncModes \cup {"rw"}
HasA(m) == m \in AppendModes
\* The create-exclusive marker never found in a mode.
HasX_never(m) == FALSE
HasX(m) == m \in ExclModes
HasR(m) == m \in ReadModes \cup {"rw"}

----------------------------------------------------------------------------
(* Contents and the JSON codec *)

Chars == {"a", "b"}
Keys == {"k1", "k2"}
Vals == {"v1", "v2"}

RECURSIVE SeqsUpTo(_, _)
SeqsUpTo(S, n) ==
    IF n = 0 THEN {<<>>}
    ELSE LET shorter == SeqsUpTo(S, n - 1)
         IN  shorter \cup {Append(s, x) : s \in {t \in shorter : Len(t) = n - 1}, x \in S}

\* dict.update(c) on insertion-ordered mappings (sequences of <<key, value>>):
\* a key already present keeps its place and takes the new value, a new key
\* goes to the end.
HasKey(m, k) == \E i \in 1..Len(m) : m[i][1] = k
SetKey(m, k, v) ==
    IF HasKey(m, k)
    THEN [i \in 1..Len(m) |-> IF m[i][1] = k THEN <<k, v>> ELSE m[i]]
    ELSE Append(m, <<k, v>>)

RECURSIVE DictUpdate(_, _)
DictUpdate(m, c) ==
    IF c = <<>> THEN m
    ELSE DictUpdate(SetKey(m, c[1][1], c[1][2]), Tail(c))

\* The value a mapping has for a key (keys are distinct in a mapping).
Lookup(m, k) == LET i == CHOOSE i \in 1..Len(m) : m[i][1] = k IN m[i][2]
KeysOf(m) == {m[i][1] : i \in 1..Len(m)}
\* dict equality: same keys, same values, order ignored
DictEq(m1, m2) ==
    /\ KeysOf(m1) = KeysOf(m2)
    /\ \A k \in KeysOf(m1) : Lookup(m1, k) = Lookup(m2, k)

\* json.dumps of a mapping: an opening brace, the members in order, a closing brace.
RECURSIVE Members(_)
Members(m) == IF m = <<>> THEN <<>> ELSE <<m[1][1], m[1][2]>> \o Members(Tail(m))
json_dumps(m) == <<"{">> \o Members(m) \o <<"}">>

\* json.loads: the text must be exactly one document.
JsonValid(s) ==
    /\ Len(s) >= 2
    /\ s[1] = "{"
    /\ s[Len(s)] = "}"
    /\ (Len(s) - 2) % 2 = 0
    /\ \A i \in 2..(Len(s) - 1) :
          IF i % 2 = 0 THEN s[i] \in Keys ELSE s[i] \in Vals

RECURSIVE Pairs(_)
Pairs(s) == IF Len(s) < 2 THEN <<>> ELSE << <<s[1], s[2]>> >> \o Pairs(Tail(Tail(s)))
json_loads(s) == DictUpdate(<<>>, Pairs(SubSeq(s, 2, Len(s) - 1)))

----------------------------------------------------------------------------
(* The csv, yaml, toml and pickle codecs *)

\* The pieces of s between the occurrences of the token sep
RECURSIVE SplitOn(_, _)
SplitOn(s, sep) ==
    IF \A i \in 1..Len(s) : s[i] # sep THEN <<s>>
    ELSE LET i == CHOOSE j \in 1..Len(s) :
                      s[j] = sep /\ \A k \in 1..(j - 1) : s[k] # sep
         IN  <<SubSeq(s, 1, i - 1)>> \o SplitOn(SubSeq(s, i + 1, Len(s)), sep)

\* The pieces of a sequence of sequences one after the other, each followed
\* by the tokens end
RECURSIVE Joined(_, _)
Joined(ss, end) ==
    IF ss = <<>> THEN <<>> ELSE ss[1] \o end \o Joined(Tail(ss), end)

\* What a handle opened in text mode with the default newline=None hands to
\* a reader: "\r\n" and a lone "\r" arrive as "\n".
RECURSIVE UniversalNewlines(_)
UniversalNewlines(s) ==
    IF s = <<>> THEN <<>>
    ELSE IF s[1] = "\r"
    THEN <<"\n">> \o UniversalNewlines(
                        IF Len(s) > 1 /\ s[2] = "\n" THEN SubSeq(s, 3, Len(s))
                        ELSE Tail(s))
    ELSE <<s[1]>> \o UniversalNewlines(Tail(s))

\* One line of csv.writer(self.file, lineterminator='\n'): the cells joined
\* by "," (a cell is a sequence of characters).  The writer quotes a cell that
\* holds the delimiter, the quote character or a character of the line
\* terminator; the cells of the model hold none of these and are not empty,
\* so no cell is quoted.  A carriage return is none of these either.
csv_row(row) ==
    IF row = <<>> THEN <<>>
    ELSE LET s == Joined(row, <<",">>) IN SubSeq(s, 1, Len(s) - 1)

\* writer.writerows(content)
csv_dumps(rows) ==
    Joined([i \in 1..Len(rows) |-> csv_row(rows[i])], <<"\n">>)

\* list(csv.reader(lines)): one row per line, an empty row for an empty line
csv_loads(s) ==
    LET pieces == SplitOn(s, "\n")
        lines == IF pieces[Len(pieces)] = <<>>
                 THEN SubSeq(pieces, 1, Len(pieces) - 1)
                 ELSE pieces
    IN  [i \in 1..Len(lines) |->
            IF lines[i] = <<>> THEN <<>> ELSE SplitOn(lines[i], ",")]

\* The keys in the order yaml.dump sorts them (sort_keys=True)
KeyOrder == <<"k1", "k2">>

\* yaml.dump(content, default_flow_style=False) of a mapping of strings: one
\* line "key: value" per member, sorted by key; "{}" for the empty mapping.
RECURSIVE YamlLines(_, _)
YamlLines(m, i) ==
    IF i > Len(KeyOrder) THEN <<>>
    ELSE (IF HasKey(m, KeyOrder[i])
          THEN <<KeyOrder[i], ":", Lookup(m, KeyOrder[i]), "\n">>
          ELSE <<>>) \o YamlLines(m, i + 1)
yaml_dumps(m) == IF m = <<>> THEN <<"{}", "\n">> ELSE YamlLines(m, 1)

\* The members of a text of lines "key sep value"
RECURSIVE LinePairs(_)
LinePairs(s) ==
    IF Len(s) < 4 THEN <<>>
    ELSE << <<s[1], s[3]>> >> \o LinePairs(SubSeq(s, 5, Len(s)))

\* s is a text of lines "key sep value"
LinesValid(s, sep) ==
    /\ Len(s) % 4 = 0
    /\ \A i \in 1..Len(s) :
          CASE i % 4 = 1 -> s[i] \in Keys
            [] i % 4 = 2 -> s[i] = sep
            [] i % 4 = 3 -> s[i] \in Vals
            [] OTHER -> s[i] = "\n"

\* yaml.load accepts a block mapping (a key that comes twice keeps its last
\* value) or the flow mapping "{}" alone.
YamlValid(s) == s = <<"{}", "\n">> \/ LinesValid(s, ":")
yaml_loads(s) ==
    IF s = <<"{}", "\n">> THEN <<>> ELSE DictUpdate(<<>>, LinePairs(s))

\* toml.dumps(content) of a mapping of strings: one line 'key = "value"' per
\* member, in the order of the mapping.
toml_dumps(m) ==
    Joined([i \in 1..Len(m) |-> <<m[i][1], "=", m[i][2]>>], <<"\n">>)

\* toml.loads accepts lines of distinct keys (the empty text is the empty
\* mapping).
TomlValid(s) ==
    /\ LinesValid(s, "=")
    /\ \A i, j \in 1..Len(LinePairs(s)) :
          LinePairs(s)[i][1] = LinePairs(s)[j][1] => i = j
toml_loads(s) == LinePairs(s)

\* pickle.dumps(content) of a mapping of strings or of a string: the frame of
\* one object, from the protocol mark to the STOP opcode.
pickle_dumps(content, kind) ==
    <<"PROTO", kind>> \o (IF kind = "dict" THEN Members(content) ELSE content)
        \o <<"STOP">>

\* The end of the first frame of s (0 when s holds no whole frame)
FrameEnd(s) ==
    IF \E i \in 1..Len(s) : s[i] = "STOP"
    THEN CHOOSE i \in 1..Len(s) : s[i] = "STOP" /\ \A k \in 1..(i - 1) : s[k] # "STOP"
    ELSE 0

\* s is the frame of one object
PickleValid(s) ==
    /\ Len(s) >= 3
    /\ s[1] = "PROTO"
    /\ s[2] \in {"dict", "str"}
    /\ s[Len(s)] = "STOP"
    /\ s[2] = "dict" => Len(s) % 2 = 1

\* pickle.loads of one frame
pickle_loads(s) ==
    IF s[2] = "dict" THEN DictUpdate(<<>>, Pairs(SubSeq(s, 3, Len(s) - 1)))
    ELSE SubSeq(s, 3, Len(s) - 1)

----------------------------------------------------------------------------
(* Handles: the object open() returns *)

NoPath == Path("", <<>>, "")

\* self._file = None
None == [none |-> TRUE, path |-> NoPath, mode |-> "", closed |-> FALSE,
         pos |-> 0, buf |-> <<>>]

\* A handle just opened on path p: mode is its .mode attribute, pos the file
\* position, buf the data written through it and not yet flushed to disk.
NewHandle(p, m) == [none |-> FALSE, path |-> p, mode |-> ReportedMode(m),
                    closed |-> FALSE, pos |-> 0, buf |-> <<>>]

Exists(d, p) == p \in DOMAIN d

\* d with the file at p holding content c (created when absent)
Store(d, p, c) == [q \in (DOMAIN d) \cup {p} |-> IF q = p THEN c ELSE d[q]]
\* d without the file at p
Remove(d, p) == [q \in (DOMAIN d) \ {p} |-> d[q]]

\* What the buffered data of handle f does to content c when it is flushed:
\* an append handle adds it at the end, any other handle lays it over the
\* content from the handle's position on.
Overlay(c, f) ==
    IF f.buf = <<>> THEN c
    ELSE IF f.mode \in AppendModes THEN c \o f.buf
    ELSE SubSeq(c, 1, f.pos) \o f.buf
            \o SubSeq(c, f.pos + Len(f.buf) + 1, Len(c))

\* The errors the package raises as FileError (by the spec's names).
FileErrors == {"InvalidFileError", "OpenError", "UnsupportedTypeError",
               "InvalidModeError", "FormatError", "InvalidDestinationError",
               "InvalidFilenameError", "SameLocationError",
               "UnsupportedOperationError"}

NoVal == <<>>

\* The state one method call works on: the disk, the fields of self, and the
\* outcome so far.
State(d, fp, aa, f) ==
    [disk |-> d, filepath |-> fp, allow_any |-> aa, file |-> f,
     created_file |-> FALSE, err |-> "ok", val |-> NoVal]
Raise(s, e) == [s EXCEPT !.err = e, !.val = NoVal]
Return(s, v) == [s EXCEPT !.err = "ok", !.val = v]

\* The end of a method that returns None, s being the outcome of its last
\* statement.
Done(s) == IF s.err # "ok" THEN s ELSE Return(s, NoVal)

\* try: ... except Exception: raise FileError: any failure of the body, whose
\* outcome is s, is raised again as the error e.
Except(s, e) == IF s.err # "ok" THEN Raise(s, e) ELSE s

\* FileHandler.closed: self.file and self.file.closed
closed(s) == ~s.file.none /\ s.file.closed

\* FileHandler.file_mode; "None" stands for Python's None
file_mode(s) == IF s.file.none THEN "None" ELSE s.file.mode

\* FileHandler.file_exists
file_exists(s) == Exists(s.disk, s.filepath)

\* FileHandler.file_size: os.path.getsize, the size on disk
file_size(s) == Len(s.disk[s.filepath])

\* FileHandler.close_file: closing flushes the buffer to the file.
close_file(s) ==
    IF ~s.file.none /\ ~closed(s)
    THEN [s EXCEPT
            !.disk = IF Exists(s.disk, s.file.path)
                     THEN Store(s.disk, s.file.path,
                                Overlay(s.disk[s.file.path], s.file))
                     ELSE s.disk,
            !.file = [s.file EXCEPT !.closed = TRUE, !.buf = <<>>]]
    ELSE s

\* The built-in open(self.filepath, mode) of open_file, on a state whose
\* handle is already closed.
BuiltinOpen(s, mode) ==
    IF mode \notin OpenableModes THEN Raise(s, "OpenError")
    ELSE IF mode \in ReadModes
    THEN IF Exists(s.disk, s.filepath)
         THEN [s EXCEPT !.file = NewHandle(s.filepath, mode)]
         ELSE Raise(s, "OpenError")
    ELSE IF mode \in TruncModes
    THEN [s EXCEPT !.disk = Store(s.disk, s.filepath, <<>>),
                   !.file = NewHandle(s.filepath, mode)]
    ELSE IF mode \in AppendModes
    THEN [s EXCEPT !.disk = IF Exists(s.disk, s.filepath) THEN s.disk
                            ELSE Store(s.disk, s.filepath, <<>>),
                   !.file = NewHandle(s.filepath, mode)]
    ELSE IF Exists(s.disk, s.filepath) THEN Raise(s, "OpenError")
    ELSE [s EXCEPT !.disk = Store(s.disk, s.filepath, <<>>),
                   !.file = NewHandle(s.filepath, mode)]

\* FileHandler.open_file; mode "None" is a call with mode=None.
open_file(s, mode) ==
    IF mode = "None" THEN Raise(s, "AttributeError")
    ELSE IF ~closed(s) /\ file_mode(s) = mode THEN s
    ELSE BuiltinOpen(close_file(s), mode)

\* self.file.write(c): c is a sequence of tokens of kind "str" or "bytes"
\* (or another type, which no file accepts).
file_write(s, c, kind) ==
    IF s.file.none THEN Raise(s, "AttributeError")
    ELSE IF s.file.closed THEN Raise(s, "ValueError")
    ELSE IF kind # (IF IsBinary(s.file.mode) THEN "bytes" ELSE "str")
    THEN Raise(s, "TypeError")
    ELSE IF s.file.mode \in {"r", "rb"} THEN Raise(s, "UnsupportedOperation")
    ELSE [s EXCEPT !.file.buf = s.file.buf \o c]

\* self.file.read(): everything from the position to the end of the file.
file_read(s) ==
    IF s.file.none THEN Raise(s, "AttributeError")
    ELSE IF s.file.closed THEN Raise(s, "ValueError")
    ELSE IF s.file.mode \notin ReadModes \cup {"w+", "a+", "ab+", "x+", "xb+"}
    THEN Raise(s, "UnsupportedOperation")
    ELSE LET c == Overlay(s.disk[s.file.path], s.file)
             start == IF s.file.mode \in AppendModes THEN Len(c)
                      ELSE IF s.file.buf = <<>> THEN s.file.pos
                      ELSE s.file.pos + Len(s.file.buf)
             rest == SubSeq(c, start + 1, Len(c))
         IN  Return([s EXCEPT !.disk = Store(s.disk, s.file.path, c),
                              !.file.buf = <<>>,
                              !.file.pos = Len(c)],
                    rest)

\* self.file.write('') of clear_file, s1 being the outcome of open_file('w').
clear_write(s1) ==
    IF s1.err # "ok" THEN s1 ELSE file_write(s1, <<>>, "str")

\* if not was_closed: self.open_file(og_mode) of clear_file, s2 being the
\* outcome of the write.
clear_reopen(s2, was_closed, og_mode) ==
    IF s2.err # "ok" THEN s2
    ELSE IF ~was_closed THEN open_file(s2, og_mode)
    ELSE s2

\* FileHandler.__exit__: leaving the with block closes the file.
__exit__(s) == close_file(s)

\* FileHandler.clear_file
clear_file(s) ==
    clear_reopen(clear_write(open_file(s, "w")), closed(s), file_mode(s))

\* delete_file with the early return when the file is absent raising instead.
delete_file_strict(s) ==
    IF ~file_exists(s) THEN Raise(s, "NotFoundError")
    ELSE Return([close_file(s) EXCEPT !.disk = Remove(@, s.filepath),
                                      !.file = None],
                NoVal)

\* FileHandler.delete_file; val tells whether the warning was emitted.
delete_file(s) ==
    IF ~file_exists(s) THEN Return(s, <<"warned">>)
    ELSE Return([close_file(s) EXCEPT !.disk = Remove(@, s.filepath),
                                      !.file = None],
                NoVal)

----------------------------------------------------------------------------
(* The format dispatcher *)

\* json.load(self.file), s1 being the outcome of the read of the rest of the
\* file.
json_load(s1) ==
    IF s1.err # "ok" THEN s1
    ELSE IF JsonValid(s1.val) THEN Return(s1, json_loads(s1.val))
    ELSE Raise(s1, "ValueError")

\* FileHandler._read_json
read_json(s) == Except(json_load(file_read(s)), "FormatError")

\* list(csv.reader(self.file)), s1 being the outcome of the read of the rest
\* of the file: a text handle hands over lines of text, a binary handle lines
\* of bytes, which the reader refuses.
csv_read(s1) ==
    IF s1.err # "ok" THEN s1
    ELSE IF IsBinary(s1.file.mode)
    THEN IF s1.val = <<>> THEN Return(s1, <<>>) ELSE Raise(s1, "csv.Error")
    ELSE Return(s1, csv_loads(UniversalNewlines(s1.val)))

\* FileHandler._read_csv
read_csv(s) == Except(csv_read(file_read(s)), "FormatError")

\* FileHandler._write_csv; a list of rows has the kind "rows".
write_csv(s, content, kind) ==
    IF kind # "rows" THEN Raise(s, "TypeError")
    ELSE Done(file_write(s, csv_dumps(content), "str"))

\* yaml.load(self.file), s1 being the outcome of the read of the rest of the
\* file: an empty stream loads as None.
yaml_load(s1) ==
    IF s1.err # "ok" THEN s1
    ELSE IF s1.val = <<>> THEN Return(s1, NoVal)
    ELSE IF YamlValid(s1.val) THEN Return(s1, yaml_loads(s1.val))
    ELSE Raise(s1, "YAMLError")

\* FileHandler._read_yaml
read_yaml(s) == Except(yaml_load(file_read(s)), "FormatError")

\* FileHandler._write_yaml: yaml.dump encodes the text for a stream that has
\* no encoding of its own, so it writes str to a text handle and bytes to a
\* binary one.  The sessions write mappings; a value of another type has the
\* outcome OtherValue.
write_yaml(s, content, kind) ==
    IF kind # "dict" THEN Raise(s, "OtherValue")
    ELSE Done(file_write(s, yaml_dumps(content),
                         IF IsBinary(s.file.mode) THEN "bytes" ELSE "str"))

\* toml.load(self.file), s1 being the outcome of the read of the rest of the
\* file: the decoder takes text only.
toml_load(s1) ==
    IF s1.err # "ok" THEN s1
    ELSE IF IsBinary(s1.file.mode) THEN Raise(s1, "TypeError")
    ELSE IF TomlValid(s1.val) THEN Return(s1, toml_loads(s1.val))
    ELSE Raise(s1, "TomlDecodeError")

\* FileHandler._read_toml
read_toml(s) == Except(toml_load(file_read(s)), "FormatError")

\* FileHandler._write_toml; a value that is no mapping has the outcome
\* OtherValue.
write_toml(s, content, kind) ==
    IF kind # "dict" THEN Raise(s, "OtherValue")
    ELSE Done(file_write(s, toml_dumps(content), "str"))

\* pickle.load(self.file), s1 being the outcome of open_file('rb+'): the
\* first whole frame from the position on, and the position is left behind
\* it.
pickle_load(s1) ==
    IF s1.err # "ok" THEN s1
    ELSE LET c == Overlay(s1.disk[s1.file.path], s1.file)
             start == IF s1.file.mode \in AppendModes THEN Len(c)
                      ELSE IF s1.file.buf = <<>> THEN s1.file.pos
                      ELSE s1.file.pos + Len(s1.file.buf)
             rest == SubSeq(c, start + 1, Len(c))
             n == FrameEnd(rest)
         IN  IF n = 0 THEN Raise(s1, "EOFError")
             ELSE IF ~PickleValid(SubSeq(rest, 1, n))
             THEN Raise(s1, "UnpicklingError")
             ELSE Return([s1 EXCEPT !.disk = Store(s1.disk, s1.file.path, c),
                                    !.file.buf = <<>>,
                                    !.file.pos = start + n],
                         pickle_loads(SubSeq(rest, 1, n)))

\* FileHandler._read_pickle
read_pickle(s) == Except(pickle_load(open_file(s, "rb+")), "FormatError")

\* pickle.dump(content, self.file), s1 being the outcome of open_file('ab+').
\* The sessions pickle mappings and strings; a value of another type has the
\* outcome OtherValue.
pickle_dump(s1, content, kind) ==
    IF s1.err # "ok" THEN s1
    ELSE IF kind \notin {"dict", "str"} THEN Raise(s1, "OtherValue")
    ELSE Done(file_write(s1, pickle_dumps(content, kind), "bytes"))

\* FileHandler._write_pickle
write_pickle(s, content, kind) == pickle_dump(open_file(s, "ab+"), content, kind)

\* The type of the value read_file returns in a mode (a pickle file of the
\* sessions that copy holds mappings).
ReadKind(p, mode) ==
    IF filetype(p) \in {"json", "yaml", "toml", "pickle"} THEN "dict"
    ELSE IF filetype(p) = "csv" THEN "rows"
    ELSE IF IsBinary(mode) THEN "bytes" ELSE "str"

\* The type check of read_file and write_to_file with the type check left
\* out.
type_allowed_unchecked(s) == TRUE

\* The type check of read_file and write_to_file:
\* self.filetype in self.supported_types() or self.allow_any is True
type_allowed(s) == filetype(s.filepath) \in supported_types \/ s.allow_any

\* The end of read_file, s1 being the outcome of open_file(read_mode):
\* getattr(self, f'_read_{self.filetype}') or self.file.read().
read_opened(s1) ==
    IF s1.err # "ok" THEN s1
    ELSE IF filetype(s1.filepath) \in ReadMethods
    THEN CASE filetype(s1.filepath) = "json" -> read_json(s1)
           [] filetype(s1.filepath) = "csv" -> read_csv(s1)
           [] filetype(s1.filepath) = "yaml" -> read_yaml(s1)
           [] filetype(s1.filepath) = "pickle" -> read_pickle(s1)
           [] filetype(s1.filepath) = "toml" -> read_toml(s1)
    ELSE file_read(s1)

\* FileHandler.read_file
read_file(s, read_mode) ==
    IF HasW(read_mode) \/ HasA(read_mode) \/ HasX(read_mode)
    THEN Raise(s, "InvalidModeError")
    ELSE IF type_allowed(s)
    THEN read_opened(open_file(s, read_mode))
    ELSE Raise(s, "UnsupportedTypeError")

\* json.dump(content, self.file) of _write_json, s1 being the outcome of
\* clear_file.
json_dump(s1, content) ==
    IF s1.err # "ok" THEN s1 ELSE file_write(s1, json_dumps(content), "str")

\* FileHandler._write_json
write_json(s, content, kind) ==
    IF kind # "dict" THEN Raise(s, "TypeError")
    ELSE Done(Except(json_dump(clear_file(s), content), "FormatError"))

\* FileHandler._write_content: getattr(self, '_write_<filetype>') finds the
\* codec, or _write_content itself when the file type is "content", and then
\* the call never returns normally.
write_content(s, content, kind) ==
    IF filetype(s.filepath) \in WriteMethods
    THEN CASE filetype(s.filepath) = "json" -> write_json(s, content, kind)
           [] filetype(s.filepath) = "csv" -> write_csv(s, content, kind)
           [] filetype(s.filepath) = "yaml" -> write_yaml(s, content, kind)
           [] filetype(s.filepath) = "pickle" -> write_pickle(s, content, kind)
           [] filetype(s.filepath) = "toml" -> write_toml(s, content, kind)
           [] filetype(s.filepath) = "content" -> Raise(s, "RecursionError")
    ELSE Done(file_write(s, content, kind))

\* The end of write_to_file, s1 being the outcome of open_file(write_mode).
write_opened(s1, content, kind) ==
    IF s1.err # "ok" THEN s1 ELSE write_content(s1, content, kind)

\* FileHandler.write_to_file
write_to_file(s, content, kind, write_mode) ==
    IF HasR(write_mode) \/ HasX(write_mode)
    THEN Raise(s, "InvalidModeError")
    ELSE IF type_allowed(s)
    THEN write_opened(open_file(s, write_mode), content, kind)
    ELSE Raise(s, "UnsupportedTypeError")

\* try: file_content = self.read_file() except: file_content = {} of
\* update_json, s1 being the outcome of the read.
read_or_empty(s1) ==
    IF s1.err = "ok" THEN s1 ELSE Return(s1, <<>>)

\* file_content.update(content); self.write_to_file(file_content), s1 being
\* the outcome of the read.
write_updated(s1, content) ==
    write_to_file(s1, DictUpdate(s1.val, content), "dict", "w")

\* FileHandler.update_json
update_json(s, content) ==
    IF filetype(s.filepath) = "json"
    THEN write_updated(read_or_empty(read_file(s, "r+")), content)
    ELSE Raise(s, "UnsupportedOperationError")

----------------------------------------------------------------------------
(* Construction, copy and move *)

\* __init__ with exists_ok taken for true.
init_ignoring_exists_ok(d, p, not_found_ok, exists_ok, aa) ==
    LET s0 == State(d, p, aa, None)
    IN  IF ~Exists(d, p)
        THEN IF ~not_found_ok THEN Raise(s0, "NotFoundError")
             ELSE open_file([s0 EXCEPT !.disk = Store(d, p, <<>>),
                                       !.created_file = TRUE], "a+")
        ELSE open_file(s0, "a+")

\* __init__ without self.created_file = True.
init_without_flag(d, p, not_found_ok, exists_ok, aa) ==
    LET s0 == State(d, p, aa, None)
    IN  IF ~Exists(d, p)
        THEN IF ~not_found_ok THEN Raise(s0, "NotFoundError")
             ELSE open_file([s0 EXCEPT !.disk = Store(d, p, <<>>)], "a+")
        ELSE IF ~exists_ok THEN Raise(s0, "AlreadyExistsError")
             ELSE open_file(s0, "a+")

\* __init__ with the file opened in 'a' instead of 'a+'.
init_append_only(d, p, not_found_ok, exists_ok, aa) ==
    LET s0 == State(d, p, aa, None)
    IN  IF ~Exists(d, p)
        THEN IF ~not_found_ok THEN Raise(s0, "NotFoundError")
             ELSE open_file([s0 EXCEPT !.disk = Store(d, p, <<>>),
                                       !.created_file = TRUE], "a")
        ELSE IF ~exists_ok THEN Raise(s0, "AlreadyExistsError")
             ELSE open_file(s0, "a")

\* FileHandler.__init__ on a file system d
init(d, p, not_found_ok, exists_ok, aa) ==
    LET s0 == State(d, p, aa, None)
    IN  IF ~Exists(d, p)
        THEN IF ~not_found_ok THEN Raise(s0, "NotFoundError")
             ELSE open_file([s0 EXCEPT !.disk = Store(d, p, <<>>),
                                       !.created_file = TRUE], "a+")
        ELSE IF ~exists_ok THEN Raise(s0, "AlreadyExistsError")
             ELSE open_file(s0, "a+")

\* A destination argument: a directory is a path with no name and no
\* extension, anything else names a file.
DirDest(d) == Path(d, <<>>, "")
NoName == [name |-> <<>>, ext |-> ""]

\* The suffix update that leaves the suffix as it is.
next_suffix_stuck(suffix, isint, c) == suffix

\* The suffix update with an int suffix advanced by two.
next_suffix_skipping(suffix, isint, c) ==
    IF isint THEN <<Num(suffix[1].n + 2)>> ELSE Append(suffix, Num(c))

\* The suffix update at the end of the loop body of make_copy, c being the
\* loop counter: suffix += 1 for an int, suffix = f"{suffix}_{c}" for a str.
\* suffix is the list of name components of the suffix.
next_suffix(suffix, isint, c) ==
    IF isint THEN <<Num(suffix[1].n + 1)>> ELSE Append(suffix, Num(c))

\* The while loop of make_copy from its c-th pass on: the first candidate
\* that does not exist.
RECURSIVE ResolveCollision(_, _, _, _, _, _, _)
ResolveCollision(d, dir, name, ext, suffix, isint, c) ==
    LET full_path == Path(dir, name \o suffix, ext)
    IN  IF ~Exists(d, full_path) THEN full_path
        ELSE ResolveCollision(d, dir, name, ext, next_suffix(suffix, isint, c),
                              isint, c + 1)

\* The values full_path takes in the first n passes of the while loop of
\* make_copy from its c-th pass on, were every one of them to exist.
RECURSIVE TriedPaths(_, _, _, _, _, _, _)
TriedPaths(dir, name, ext, suffix, isint, c, n) ==
    IF n = 0 THEN <<>>
    ELSE <<Path(dir, name \o suffix, ext)>>
         \o TriedPaths(dir, name, ext, next_suffix(suffix, isint, c), isint,
                       c + 1, n - 1)

\* The destination check with every destination taken for a directory.
destination_is_file_never(destination) == FALSE

\* The destination check of make_copy: os.path.splitext(destination)[1]
destination_is_file(destination) == destination.ext # ""

\* The end of make_copy, src being the outcome of the read of the original and
\* done the handler of the copy after the write: the copy's handle is closed
\* and the handler returned.
copy_result(src, done) ==
    IF done.err # "ok" THEN Raise([src EXCEPT !.disk = done.disk], done.err)
    ELSE Return([src EXCEPT !.disk = done.disk], <<done>>)

\* dst_hdl.write_to_file(self.read_file(), write_mode='w+') of make_copy, src
\* being the outcome of the read and dst the handler of the copy.
copy_content(src, dst) ==
    IF src.err # "ok" THEN src
    ELSE copy_result(src,
            close_file(write_to_file([dst EXCEPT !.disk = src.disk], src.val,
                                     ReadKind(src.filepath, "r+"), "w+")))

\* The copy of the handler s into the new handler dst.
copy_into(s, dst) ==
    IF dst.err # "ok" THEN Raise(s, dst.err)
    ELSE copy_content(read_file([s EXCEPT !.disk = dst.disk], "r+"), dst)

\* FileHandler.make_copy; filename NoName is the default None, suffix is one
\* name component (Num(n) for a string of digits).
make_copy(s, destination, filename, suffix) ==
    IF destination_is_file(destination) THEN Raise(s, "InvalidDestinationError")
    ELSE IF filename # NoName /\ filename.ext # ""
    THEN Raise(s, "InvalidFilenameError")
    ELSE IF IsNum(suffix) /\ suffix.n < 1 THEN Raise(s, "InvalidArgumentError")
    ELSE
      LET name == IF filename # NoName THEN filename.name
                  ELSE file_basename(s.filepath)
          ext == file_ext(s.filepath)
          plain == Path(destination.dir, name, ext)
          full_path == IF ~Exists(s.disk, plain) THEN plain
                       ELSE ResolveCollision(s.disk, destination.dir, name, ext,
                                             <<suffix>>, IsNum(suffix), 1)
      IN  copy_into(s, init(s.disk, full_path, TRUE, FALSE, FALSE))

\* The end of move_file without the deletion of the original.
move_rebind_keeping_original(cp) ==
    IF cp.err # "ok" THEN cp
    ELSE Return([cp EXCEPT !.file = cp.val[1].file,
                           !.filepath = cp.val[1].filepath],
                NoVal)

\* The end of move_file with the handle of the copy taken and the path left
\* as it was.
move_rebind_keeping_path(cp) ==
    IF cp.err # "ok" THEN cp
    ELSE Return([delete_file(cp) EXCEPT !.file = cp.val[1].file], NoVal)

\* The end of move_file, cp being the outcome of make_copy and cp.val[1] the
\* handler it returned: the original is deleted and the session takes the
\* path and the handle of the copy.
move_rebind(cp) ==
    IF cp.err # "ok" THEN cp
    ELSE Return([delete_file(cp) EXCEPT !.file = cp.val[1].file,
                                        !.filepath = cp.val[1].filepath],
                NoVal)

\* FileHandler.move_file
move_file(s, destination) ==
    IF destination = DirDest(file_dir(s.filepath))
    THEN Raise(s, "SameLocationError")
    ELSE move_rebind(make_copy(s, destination, NoName, Num(1)))

----------------------------------------------------------------------------
(* The state machine *)

\* The extensions of the files the sessions are opened on: a raw text type,
\* a codec type, and two types outside the supported set.
Exts == {"txt", "json", "csharp", "content"}

SrcName == <<Word("t")>>
SrcPaths == {Path("d1", SrcName, e) : e \in Exts}

Texts == SeqsUpTo(Chars, 1) \ {<<>>}
Maps == {<< <<"k1", "v1">> >>, << <<"k1", "v2">> >>, << <<"k2", "v1">> >>}

\* What a file found on disk before the program starts may hold.
InitContents(e) ==
    IF e = "json" THEN {<<>>, <<"a">>, json_dumps(<< <<"k1", "v1">> >>)}
    ELSE {<<>>, <<"a">>}

EmptyDisk == [p \in {} |-> <<>>]
InitDisks == {EmptyDisk}
             \cup UNION {{Store(EmptyDisk, p, c) : c \in InitContents(p.ext)} :
                           p \in SrcPaths}

\* arg is the content passed to a Write or an UpdateJson, the destination
\* passed to a Move.
Outcome(op, arg, err, val) == [op |-> op, arg |-> arg, err |-> err, val |-> val]
NoArg == <<>>

Init ==
    /\ disk \in InitDisks
    /\ pc = "new"
    /\ filepath = NoPath
    /\ allow_any = FALSE
    /\ created_file = FALSE
    /\ file = None
    /\ ret = Outcome("none", NoArg, "ok", NoVal)

Self == State(disk, filepath, allow_any, file)

\* The content a reader of p finds once the session's buffered data is
\* flushed (closing or reopening the handle flushes it).
Content(d, f, p) ==
    IF ~f.none /\ ~f.closed /\ f.path = p THEN Overlay(d[p], f) ELSE d[p]

\* The outcome r of a call becomes the next state.
Becomes(r, op, arg) ==
    /\ disk' = r.disk
    /\ filepath' = r.filepath
    /\ file' = r.file
    /\ ret' = Outcome(op, arg, r.err, r.val)
    /\ UNCHANGED <<pc, allow_any, created_file>>

\* The model keeps files within the bounds.
WithinBounds(r) ==
    \A p \in DOMAIN r.disk :
        LET c == Content(r.disk, r.file, p)
        IN  IF p.ext = "json" THEN Len(c) <= MaxJsonLen
            ELSE IF filetype(p) \in ReadMethods THEN Len(c) <= MaxCodecLen
            ELSE Len(c) <= MaxLen

\* The outcome r of a call that writes becomes the next state.
BecomesWithin(r, op, arg) ==
    /\ WithinBounds(r)
    /\ Becomes(r, op, arg)

\* The outcome r of a call that adds a file becomes the next state.
BecomesUpTo(r, n, op, arg) ==
    /\ Cardinality(DOMAIN r.disk) <= n
    /\ Becomes(r, op, arg)

\* The outcome r of make_copy with the path of the handler it returned in
\* place of the handler.
CopyPath(r) ==
    [r EXCEPT !.val = IF r.err = "ok" THEN <<r.val[1].filepath>> ELSE NoVal]

\* The outcome r of a construction becomes the first state of the session.
Constructed(r) ==
    /\ pc' = IF r.err = "ok" THEN "live" ELSE "failed"
    /\ disk' = r.disk
    /\ filepath' = r.filepath
    /\ allow_any' = r.allow_any
    /\ created_file' = r.created_file
    /\ file' = r.file
    /\ ret' = Outcome("Construct", NoArg, r.err, r.val)

\* The program is started on the file the file system holds, if it holds one.
Construct(p, not_found_ok, exists_ok, aa) ==
    /\ pc = "new"
    /\ DOMAIN disk \subseteq {p}
    /\ Constructed(init(disk, p, not_found_ok, exists_ok, aa))

Open(mode) ==
    /\ pc = "live"
    /\ Becomes(open_file(Self, mode), "Open", NoArg)

Close ==
    /\ pc = "live"
    /\ Becomes(close_file(Self), "Close", NoArg)

Clear ==
    /\ pc = "live"
    /\ Becomes(clear_file(Self), "Clear", NoArg)

Delete ==
    /\ pc = "live"
    /\ Becomes(delete_file(Self), "Delete", NoArg)

Read(mode) ==
    /\ pc = "live"
    /\ Becomes(read_file(Self, mode), "Read", NoArg)

Write(content, kind, mode) ==
    /\ pc = "live"
    /\ BecomesWithin(write_to_file(Self, content, kind, mode), "Write", content)

UpdateJson(content) ==
    /\ pc = "live"
    /\ BecomesWithin(update_json(Self, content), "UpdateJson", content)

Copy(destination, filename, suffix) ==
    /\ pc = "live"
    /\ BecomesUpTo(CopyPath(make_copy(Self, destination, filename, suffix)),
                   MaxFiles, "Copy", NoArg)

Move(destination) ==
    /\ pc = "live"
    /\ BecomesUpTo(move_file(Self, destination), MaxMoveFiles,
                   "Move", destination)

\* The contents the callers write: texts and bytes, and mappings.
WriteInputs ==
    {[content |-> c, kind |-> "str"] : c \in Texts}
    \cup {[content |-> <<"a">>, kind |-> "bytes"]}
WriteMaps == {[content |-> m, kind |-> "dict"] : m \in Maps}

\* The modes the callers pass: every mode the call accepts, and one of each
\* kind it rejects.
OpenInputs == ReadModes \cup TruncModes \cup AppendModes \cup {"x", ""}
ReadInputs == ReadModes \cup {"w", "a", "x", ""}
WriteModeInputs == TruncModes \cup AppendModes \cup {"r", "x", ""}

Next ==
    \/ \E p \in SrcPaths, nfo \in BOOLEAN, eo \in BOOLEAN, aa \in BOOLEAN :
          Construct(p, nfo, eo, aa)
    \/ \E mode \in OpenInputs : Open(mode)
    \/ Close
    \/ Clear
    \/ Delete
    \/ \E mode \in ReadInputs : Read(mode)
    \/ \E w \in WriteInputs, mode \in WriteModeInputs : Write(w.content, w.kind, mode)
    \/ \E w \in WriteMaps, mode \in WriteModeInputs : Write(w.content, w.kind, mode)
    \/ \E m \in Maps : UpdateJson(m)

Spec == Init /\ [][Next]_vars

\* The copy specification: sessions on a raw and on a codec file, with the
\* contents found at start, and every kind of copy argument.
Destinations == {DirDest(d) : d \in Dirs} \cup {Path("d1", SrcName, "txt")}
Filenames == {NoName, [name |-> <<Word("n")>>, ext |-> ""],
              [name |-> <<Word("n")>>, ext |-> "txt"]}
Suffixes == {Num(n) : n \in 0..MaxSuffix} \cup {Word("copy")}

NextCopy ==
    \/ \E p \in {q \in SrcPaths : q.ext \in {"txt", "json"}}, nfo \in BOOLEAN, eo \in BOOLEAN, aa \in BOOLEAN :
          Construct(p, nfo, eo, aa)
    \/ Close
    \/ Delete
    \/ Read("r+")
    \/ \E d \in Destinations, f \in Filenames, x \in Suffixes : Copy(d, f, x)

SpecCopy == Init /\ [][NextCopy]_vars

\* The move specification: sessions of every type in the states a few reads
\* and writes lead to, moved between the directories.
MoveWriteInputs == {[content |-> <<"a">>, kind |-> "str"]}
MoveWriteMaps == {[content |-> << <<"k1", "v1">> >>, kind |-> "dict"]}

NextMove ==
    \/ \E p \in SrcPaths, nfo \in BOOLEAN, eo \in BOOLEAN, aa \in BOOLEAN :
          Construct(p, nfo, eo, aa)
    \/ Close
    \/ Clear
    \/ Delete
    \/ \E mode \in {"r", "r+"} : Read(mode)
    \/ \E w \in MoveWriteInputs, mode \in {"w", "a+"} : Write(w.content, w.kind, mode)
    \/ \E w \in MoveWriteMaps, mode \in {"w", "a+"} : Write(w.content, w.kind, mode)
    \/ \E d \in Destinations : Move(d)

SpecMove == Init /\ [][NextMove]_vars

\* The release specification: sessions opened in every mode and then closed,
\* left or deleted, on a file that another session on the same path may
\* remove in between.
Exit ==
    /\ pc = "live"
    /\ Becomes(__exit__(Self), "Exit", NoArg)

\* os.remove of the session's file by another session on the same path.
Unlink ==
    /\ pc = "live"
    /\ Exists(disk, filepath)
    /\ Becomes([Self EXCEPT !.disk = Remove(disk, filepath)], "Unlink", NoArg)

NextRelease ==
    \/ \E p \in SrcPaths, nfo \in BOOLEAN, eo \in BOOLEAN, aa \in BOOLEAN :
          Construct(p, nfo, eo, aa)
    \/ \E mode \in OpenInputs : Open(mode)
    \/ Close
    \/ Exit
    \/ Delete
    \/ Unlink

SpecRelease == Init /\ [][NextRelease]_vars

\* The codec specification: sessions on a file of each structured format,
\* created by the construction or found empty, written and read in the
\* default modes and a few others.
CodecExts == {"json", "csv", "yml", "pkl", "toml"}
CodecPaths == {Path("d1", SrcName, e) : e \in CodecExts}

\* The rows written to a csv session: cells of plain characters, and a cell
\* that holds a carriage return.
CsvRows == {<< << <<"a">>, <<"b">> >>, << <<"b">> >> >>,
            << << <<"a">> >> >>,
            << << <<"a", "\r", "b">> >> >>}

\* The values written to a session on a file with the extension e
CodecInputs(e) ==
    CASE e \in {"json", "yml", "toml", "pkl"} ->
            {[content |-> m, kind |-> "dict"] : m \in Maps}
      [] e = "csv" -> {[content |-> rows, kind |-> "rows"] : rows \in CsvRows}
      [] OTHER -> {}

InitCodec ==
    /\ disk \in {EmptyDisk} \cup {Store(EmptyDisk, p, <<>>) : p \in CodecPaths}
    /\ pc = "new"
    /\ filepath = NoPath
    /\ allow_any = FALSE
    /\ created_file = FALSE
    /\ file = None
    /\ ret = Outcome("none", NoArg, "ok", NoVal)

NextCodec ==
    \/ \E p \in CodecPaths, nfo \in BOOLEAN, eo \in BOOLEAN, aa \in BOOLEAN :
          Construct(p, nfo, eo, aa)
    \/ Close
    \/ \E mode \in {"r+", "r", "rb"} : Read(mode)
    \/ \E w \in CodecInputs(filepath.ext), mode \in {"a+", "w"} :
          Write(w.content, w.kind, mode)

SpecCodec == InitCodec /\ [][NextCodec]_vars

\* The session specification: every operation of a session, on a raw and on
\* a codec file, with a few modes and contents each.
NextSession ==
    \/ \E p \in {q \in SrcPaths : q.ext \in {"txt", "json"}}, nfo \in BOOLEAN, eo \in BOOLEAN :
          Construct(p, nfo, eo, FALSE)
    \/ \E mode \in {"r", "x"} : Open(mode)
    \/ Close
    \/ Clear
    \/ Delete
    \/ Read("r+")
    \/ \E w \in MoveWriteInputs, mode \in {"a+"} : Write(w.content, w.kind, mode)
    \/ \E w \in MoveWriteMaps, mode \in {"w"} : Write(w.content, w.kind, mode)
    \/ \E d \in Destinations \ {DirDest("d1")} : Copy(d, NoName, Num(1))
    \/ \E d \in Destinations : Move(d)

SpecSession == Init /\ [][NextSession]_vars

----------------------------------------------------------------------------
(* Properties *)

Live == pc = "live"
Here == Content(disk, file, filepath)

\* The file type has no dedicated codec and the session may read and write it.
RawType(p, aa) ==
    /\ filetype(p) \notin ReadMethods \cup WriteMethods
    /\ (filetype(p) \in supported_types \/ aa)

\* t is the end of s
EndsWith(s, t) ==
    /\ Len(t) <= Len(s)
    /\ SubSeq(s, Len(s) - Len(t) + 1, Len(s)) = t

\* C1: after a successful Write of a mapping m to a JSON session in one of the
\* text write modes, whatever the session's state before the call, the file
\* holds exactly the serialization of m and a following Read returns m.
C1_JsonWriteReplaces ==
    (/\ Live
     /\ ret.op = "Write"
     /\ ret.err = "ok"
     /\ filetype(filepath) = "json"
     /\ file.mode \in {"w", "w+", "a", "a+"})
    => /\ Here = json_dumps(ret.arg)
       /\ LET r == read_file(Self, "r")
          IN  r.err = "ok" /\ DictEq(r.val, ret.arg)

\* C2: after Clear on a session of a raw file type, a content read
\* (file_content, a Read in mode 'r') returns empty content and the file size
\* is then zero.
C2_ClearThenReadEmpty ==
    (/\ Live
     /\ ret.op = "Clear"
     /\ ret.err = "ok"
     /\ RawType(filepath, allow_any))
    => LET r == read_file(Self, "r")
       IN  r.err = "ok" /\ r.val = <<>> /\ file_size(r) = 0

\* C3: a Move to the session's current directory fails with SameLocationError
\* and changes neither the disk nor the session; after a successful Move the
\* session's path lies in the destination directory, a file exists at that
\* path and no file exists at the old path.
C3_Move ==
    [][ret'.op = "Move" =>
         /\ ret'.arg = DirDest(file_dir(filepath)) =>
               /\ ret'.err = "SameLocationError"
               /\ UNCHANGED <<disk, file, filepath>>
         /\ ret'.err = "ok" =>
               /\ ret'.arg # DirDest(file_dir(filepath))
               /\ DirDest(file_dir(filepath')) = ret'.arg
               /\ Exists(disk', filepath')
               /\ ~Exists(disk', filepath)]_vars

\* A session moved into the other directory.
C3_Witness ==
    /\ ret.op = "Move"
    /\ ret.err = "ok"
    /\ file_dir(filepath) = "d2"
    /\ Exists(disk, filepath)
    /\ ~Exists(disk, Path("d1", SrcName, filepath.ext))

\* C4: UpdateStructured(c) on a JSON session whose file decodes to the mapping
\* m leaves the file holding the shallow merge of m and c: the keys of both,
\* c's value for every key of c, m's value for every other key of m.
C4_UpdateMerges ==
    [][(/\ ret'.op = "UpdateJson"
        /\ ret'.err = "ok"
        /\ Exists(disk, filepath)
        /\ JsonValid(Here))
       => LET m == json_loads(Here)
              c == ret'.arg
              after == Content(disk', file', filepath')
              n == json_loads(after)
          IN  /\ JsonValid(after)
              /\ KeysOf(n) = KeysOf(m) \cup KeysOf(c)
              /\ \A k \in KeysOf(c) : Lookup(n, k) = Lookup(c, k)
              /\ \A k \in KeysOf(m) \ KeysOf(c) : Lookup(n, k) = Lookup(m, k)]_vars

\* C5: after a successful Write(c) in mode 'w' or 'wb' on a file without a
\* dedicated codec, whatever the session's state before the call, the file's
\* content is exactly c.
C5_WriteModeWOverwrites ==
    (/\ Live
     /\ ret.op = "Write"
     /\ ret.err = "ok"
     /\ RawType(filepath, allow_any)
     /\ file.mode \in {"w", "wb"})
    => Here = ret.arg

\* The session's own directory as a destination
OwnDir == DirDest(file_dir(filepath))

\* The directory destinations and the extension-less file names of a copy
DirDestinations == {d \in Destinations : d.ext = ""}
PlainFilenames == {f \in Filenames : f.ext = ""}
\* The suffixes make_copy accepts
NumSuffixes == {x \in Suffixes : IsNum(x) /\ x.n >= 1}
ValidSuffixes == NumSuffixes \cup {x \in Suffixes : ~IsNum(x)}

\* The name a copy is asked to carry, and the candidate path with the name
\* components tail after it.
CopyName(f) == IF f = NoName THEN file_basename(filepath) ELSE f.name
Candidate(d, f, tail) == Path(d.dir, CopyName(f) \o tail, file_ext(filepath))

\* The path of the copy the outcome r of make_copy returns.
NewPath(r) == r.val[1].filepath

\* The call r left every file of the disk as it was.
KeepsFiles(r) ==
    \A p \in DOMAIN disk :
        /\ p \in DOMAIN r.disk
        /\ Content(r.disk, r.file, p) = Content(disk, file, p)

\* C6 as stated: a Copy into the session's own directory with no filename
\* fails with InvalidDestinationError and creates no file.
C6_OwnDirCopyFails ==
    (Live /\ Exists(disk, filepath))
    => \A x \in ValidSuffixes :
          LET r == make_copy(Self, OwnDir, NoName, x)
          IN  /\ r.err = "InvalidDestinationError"
              /\ DOMAIN r.disk = DOMAIN disk

\* C6: a Copy whose destination carries an extension (a file path, such as the
\* path of the session's own file) fails with InvalidDestinationError and
\* changes neither the disk nor the session; a Copy into the session's own
\* directory with no filename never fails with InvalidDestinationError, and
\* when it succeeds (as it always does for a raw text file) it creates a new
\* file <base>_<suffix...><ext> in that directory next to the original.
C6_CopyDestination ==
    Live
    => \A x \in Suffixes :
          /\ \A d \in Destinations \ DirDestinations, f \in Filenames :
                LET r == make_copy(Self, d, f, x)
                IN  /\ r.err = "InvalidDestinationError"
                    /\ r.disk = disk
                    /\ r.file = file
                    /\ r.filepath = filepath
          /\ (Exists(disk, filepath) /\ x \in ValidSuffixes) =>
                LET r == make_copy(Self, OwnDir, NoName, x)
                IN  /\ r.err # "InvalidDestinationError"
                    /\ filepath.ext = "txt" => r.err = "ok"
                    /\ r.err = "ok" =>
                          /\ NewPath(r) \notin DOMAIN disk
                          /\ NewPath(r) \in DOMAIN r.disk
                          /\ NewPath(r).dir = file_dir(filepath)
                          /\ NewPath(r).ext = file_ext(filepath)
                          /\ Len(NewPath(r).name) > Len(file_basename(filepath))
                          /\ SubSeq(NewPath(r).name, 1, Len(file_basename(filepath)))
                                = file_basename(filepath)
                          /\ filepath \in DOMAIN r.disk

\* A Copy to the path of the session's own file has just failed, next to a
\* copy made earlier in the session's own directory.
C6_Witness ==
    /\ Live
    /\ ret.op = "Copy"
    /\ ret.err = "InvalidDestinationError"
    /\ Exists(disk, filepath)
    /\ Exists(disk, Path(file_dir(filepath),
                         file_basename(filepath) \o <<Num(1)>>,
                         file_ext(filepath)))

\* C7: a successful Copy with the numeric suffix n into a directory returns a
\* path that did not exist before the call and leaves every file that existed
\* with its content; the copy carries the plain name when that is free, and
\* otherwise <base>_<j><ext> for the least j >= n whose name is free (so the
\* k-th copy made with the same n is <base>_<n+k-1><ext>).
C7_NumericSuffix ==
    Live
    => \A d \in DirDestinations, f \in PlainFilenames, x \in NumSuffixes :
          LET r == make_copy(Self, d, f, x)
          IN  r.err = "ok" =>
                /\ NewPath(r) \notin DOMAIN disk
                /\ NewPath(r) \in DOMAIN r.disk
                /\ KeepsFiles(r)
                /\ IF ~Exists(disk, Candidate(d, f, <<>>))
                   THEN NewPath(r) = Candidate(d, f, <<>>)
                   ELSE \E j \in x.n .. (x.n + Cardinality(DOMAIN disk)) :
                           /\ NewPath(r) = Candidate(d, f, <<Num(j)>>)
                           /\ \A i \in x.n .. (j - 1) :
                                 Exists(disk, Candidate(d, f, <<Num(i)>>))

\* The second copy made with the suffix 1 in the session's own directory.
C7_Witness ==
    /\ Live
    /\ ret.op = "Copy"
    /\ ret.err = "ok"
    /\ ret.val = <<Path(file_dir(filepath),
                        file_basename(filepath) \o <<Num(2)>>,
                        file_ext(filepath))>>
    /\ Exists(disk, filepath)
    /\ Exists(disk, Path(file_dir(filepath),
                         file_basename(filepath) \o <<Num(1)>>,
                         file_ext(filepath)))

\* C8: a successful Copy with a non-numeric suffix s carries the plain name
\* when that is free, <name>_<s> when that is free, and otherwise
\* <name>_<s>_<k> for the least k >= 1 whose name is free: one counter after
\* the suffix.
C8_StringSuffixCounter ==
    Live
    => \A d \in DirDestinations, f \in PlainFilenames,
          x \in ValidSuffixes \ NumSuffixes :
          LET r == make_copy(Self, d, f, x)
          IN  r.err = "ok" =>
                IF ~Exists(disk, Candidate(d, f, <<>>))
                THEN NewPath(r) = Candidate(d, f, <<>>)
                ELSE IF ~Exists(disk, Candidate(d, f, <<x>>))
                THEN NewPath(r) = Candidate(d, f, <<x>>)
                ELSE \E k \in 1 .. Cardinality(DOMAIN disk) :
                        /\ NewPath(r) = Candidate(d, f, <<x, Num(k)>>)
                        /\ \A i \in 1 .. (k - 1) :
                              Exists(disk, Candidate(d, f, <<x, Num(i)>>))

\* The file type of the session is outside the supported set.
Unsupported == filetype(filepath) \notin supported_types

\* C9: on a session with allow_any = true and an extension outside the
\* supported set, a Write of a text c in a text write mode returns normally
\* and the file then ends with c, a Write of bytes in a binary write mode
\* returns normally, and a Read returns normally.
C9_AllowAnyRawIO ==
    (Live /\ allow_any /\ Unsupported /\ Exists(disk, filepath))
    => /\ \A c \in Texts, mode \in {"w", "a"} :
             LET r == write_to_file(Self, c, "str", mode)
             IN  /\ r.err = "ok"
                 /\ EndsWith(Content(r.disk, r.file, r.filepath), c)
       /\ write_to_file(Self, <<"a">>, "bytes", "wb").err = "ok"
       /\ read_file(Self, "r").err = "ok"

\* The error a Read or a Write in the mode raises on a type that is not
\* allowed: the mode check comes before the type check.
RefusedRead(mode) ==
    IF HasW(mode) \/ HasA(mode) \/ HasX(mode) THEN "InvalidModeError"
    ELSE "UnsupportedTypeError"
RefusedWrite(mode) ==
    IF HasR(mode) \/ HasX(mode) THEN "InvalidModeError"
    ELSE "UnsupportedTypeError"

\* C10: on a session with allow_any = false and an extension outside the
\* supported set, every Read in a read mode and every Write in a write mode
\* fails with UnsupportedTypeError (a call in a mode of the wrong kind fails
\* with InvalidModeError), and the failed call leaves the handle, its mode and
\* the disk as they were.
C10_UnsupportedTypeRefused ==
    (Live /\ ~allow_any /\ Unsupported)
    => /\ \A mode \in ReadInputs :
             LET r == read_file(Self, mode)
             IN  /\ r.err = RefusedRead(mode)
                 /\ r.disk = disk
                 /\ r.file = file
       /\ \A w \in WriteInputs, mode \in WriteModeInputs :
             LET r == write_to_file(Self, w.content, w.kind, mode)
             IN  /\ r.err = RefusedWrite(mode)
                 /\ r.disk = disk
                 /\ r.file = file
       /\ \A w \in WriteMaps, mode \in WriteModeInputs :
             LET r == write_to_file(Self, w.content, w.kind, mode)
             IN  /\ r.err = RefusedWrite(mode)
                 /\ r.disk = disk
                 /\ r.file = file

\* A Write and a Read have been refused on a session of an unsupported type
\* whose handle is still the one the construction opened.
C10_Witness ==
    /\ Live
    /\ ~allow_any
    /\ Unsupported
    /\ ret.op \in {"Read", "Write"}
    /\ ret.err = "UnsupportedTypeError"
    /\ ~file.none
    /\ file.mode = "a+"

\* The modes a Read refuses (a w, an a or an x in the mode) and the modes a
\* Write refuses (an r or an x in the mode).
ReadForbidden == TruncModes \cup AppendModes \cup ExclModes \cup {"rw"}
WriteForbidden == ReadModes \cup ExclModes \cup {"rw"}

\* C11: in every state of a session, a Read in a mode with a w, an a or an x
\* and a Write in a mode with an r or an x fail with InvalidModeError, the
\* modes x, xb, x+ and xb+ on both, and the failed call leaves the handle, its
\* mode and the disk as they were.
C11_ForbiddenModesRefused ==
    Live
    => /\ \A mode \in ReadForbidden :
             LET r == read_file(Self, mode)
             IN  /\ r.err = "InvalidModeError"
                 /\ r.disk = disk
                 /\ r.file = file
       /\ \A mode \in WriteForbidden, w \in WriteInputs :
             LET r == write_to_file(Self, w.content, w.kind, mode)
             IN  /\ r.err = "InvalidModeError"
                 /\ r.disk = disk
                 /\ r.file = file
       /\ \A mode \in WriteForbidden, w \in WriteMaps :
             LET r == write_to_file(Self, w.content, w.kind, mode)
             IN  /\ r.err = "InvalidModeError"
                 /\ r.disk = disk
                 /\ r.file = file

\* A Write in a forbidden mode has just been refused on a session of a
\* supported type whose handle is open for reading on a file with content.
C11_Witness ==
    /\ Live
    /\ ret.op = "Write"
    /\ ret.err = "InvalidModeError"
    /\ ~Unsupported
    /\ ~file.none
    /\ ~file.closed
    /\ file.mode = "r"
    /\ Here # <<>>

\* C13: on every disk the sessions reach, a construction with exists_ok =
\* false on a path that exists fails with AlreadyExistsError and one with
\* not_found_ok = false on a path that does not exist fails with
\* NotFoundError, whatever the other flags; the failed construction leaves the
\* disk as it was and opens no handle.
C13_ConstructionRefused ==
    \A p \in SrcPaths, nfo \in BOOLEAN, eo \in BOOLEAN, aa \in BOOLEAN :
        LET r == init(disk, p, nfo, eo, aa)
        IN  /\ (Exists(disk, p) /\ ~eo) =>
                  /\ r.err = "AlreadyExistsError"
                  /\ r.disk = disk
                  /\ r.file = None
            /\ (~Exists(disk, p) /\ ~nfo) =>
                  /\ r.err = "NotFoundError"
                  /\ r.disk = disk
                  /\ r.file = None

\* A construction has failed on a file that exists and has content.
C13_Witness ==
    /\ pc = "failed"
    /\ ret.op = "Construct"
    /\ ret.err = "AlreadyExistsError"
    /\ disk # EmptyDisk
    /\ \E p \in DOMAIN disk : disk[p] # <<>>

\* C14: on every disk the sessions reach, a construction with not_found_ok =
\* true on a path that does not exist succeeds, creates an empty file at the
\* path, changes no other file and sets created_file, whatever exists_ok is;
\* a successful construction on a path that exists leaves created_file false
\* and the disk as it was.
C14_CreatedFlag ==
    \A p \in SrcPaths, nfo \in BOOLEAN, eo \in BOOLEAN, aa \in BOOLEAN :
        LET r == init(disk, p, nfo, eo, aa)
        IN  /\ (~Exists(disk, p) /\ nfo) =>
                  /\ r.err = "ok"
                  /\ r.created_file
                  /\ r.disk = Store(disk, p, <<>>)
            /\ (Exists(disk, p) /\ r.err = "ok") =>
                  /\ ~r.created_file
                  /\ r.disk = disk

\* A session whose construction created the file.
C14_Witness ==
    /\ Live
    /\ ret.op = "Construct"
    /\ ret.err = "ok"
    /\ created_file
    /\ Exists(disk, filepath)
    /\ disk[filepath] = <<>>

\* C15: a Delete of a session whose file exists returns without error, the
\* file is then absent from the disk, the session's handle is None and the
\* session's path is None.
C15_DeleteUnbinds ==
    (Live /\ Exists(disk, filepath))
    => LET r == delete_file(Self)
       IN  /\ r.err = "ok"
           /\ ~Exists(r.disk, filepath)
           /\ r.file = None
           /\ r.filepath = NoPath

\* C16: a Delete of a session whose file is absent from the disk raises
\* nothing, emits the warning and leaves the disk and the session as they
\* were.
C16_DeleteIdempotent ==
    (Live /\ ~Exists(disk, filepath))
    => LET r == delete_file(Self)
       IN  /\ r.err = "ok"
           /\ r.val = <<"warned">>
           /\ r.disk = disk
           /\ r.file = file
           /\ r.filepath = filepath

\* A second Delete has just returned with the warning.
C16_Witness ==
    /\ Live
    /\ ret.op = "Delete"
    /\ ret.err = "ok"
    /\ ret.val = <<"warned">>
    /\ ~Exists(disk, filepath)
    /\ file = None

\* C17: after a Close, a Delete or the exit of the with block has returned
\* without error the session holds no open handle, whatever the state the
\* call was made in.
C17_Released ==
    (/\ Live
     /\ ret.op \in {"Close", "Exit", "Delete"}
     /\ ret.err = "ok")
    => (file.none \/ file.closed)

\* C18: right after a successful construction the session's handle is open
\* in mode 'a+' and can be read and written; with no Open in between, a Read
\* in the default mode returns the content of a raw file (the mapping of a
\* JSON file that holds one) and a Write in the default mode succeeds and
\* leaves the handle in 'a+'.
C18_UsableAfterConstruction ==
    (Live /\ ret.op = "Construct")
    => /\ ~file.none
       /\ ~closed(Self)
       /\ file_mode(Self) = "a+"
       /\ file_read(Self).err = "ok"
       /\ \A c \in Texts : file_write(Self, c, "str").err = "ok"
       /\ RawType(filepath, allow_any) =>
             /\ LET r == read_file(Self, "r+")
                IN  r.err = "ok" /\ r.val = Here
             /\ \A c \in Texts :
                   LET r == write_to_file(Self, c, "str", "a+")
                   IN  /\ r.err = "ok"
                       /\ file_mode(r) = "a+"
                       /\ Content(r.disk, r.file, r.filepath) = Here \o c
       /\ filetype(filepath) = "json" =>
             /\ JsonValid(Here) =>
                   LET r == read_file(Self, "r+")
                   IN  r.err = "ok" /\ r.val = json_loads(Here)
             /\ \A m \in Maps :
                   LET r == write_to_file(Self, m, "dict", "a+")
                   IN  /\ r.err = "ok"
                       /\ file_mode(r) = "a+"
                       /\ Content(r.disk, r.file, r.filepath) = json_dumps(m)

\* A session just constructed on a file that was found with content.
C18_Witness ==
    /\ Live
    /\ ret.op = "Construct"
    /\ ~created_file
    /\ filetype(filepath) = "txt"
    /\ Here # <<>>
    /\ file.mode = "a+"
    /\ ~file.closed

\* C19: a Clear of a session whose handle is open in the mode m succeeds and
\* leaves the handle open in the mode m.
C19_ClearKeepsMode ==
    (Live /\ ~file.none /\ ~file.closed)
    => LET r == clear_file(Self)
       IN  /\ r.err = "ok"
           /\ ~r.file.none
           /\ ~r.file.closed
           /\ file_mode(r) = file_mode(Self)

\* C20: on a file with no dedicated codec, a Read in a text read mode returns
\* the whole content of the file, and a second Read in the same mode right
\* after it returns the same value.
C20_ReadReturnsContent ==
    (Live /\ RawType(filepath, allow_any) /\ Exists(disk, filepath))
    => \A mode \in {"r", "r+"} :
          LET r1 == read_file(Self, mode)
              r2 == read_file(r1, mode)
          IN  /\ r1.err = "ok"
              /\ r1.val = Here
              /\ r2.err = "ok"
              /\ r2.val = r1.val

\* The value read back equals the value written (a mapping whatever the
\* order of its members).
SameValue(kind, read, written) ==
    IF kind = "dict" THEN DictEq(read, written) ELSE read = written

\* C12: on a session whose construction has just created the file, for a
\* json, yaml or toml file and a mapping, a csv file and a list of rows of
\* strings, a pickle file and an object, a Write in the default mode followed
\* by a Read in the default mode both succeed and the Read returns a value
\* equal to the one written.
C12_RoundTrip ==
    (Live /\ ret.op = "Construct" /\ created_file /\ filepath \in CodecPaths)
    => \A w \in CodecInputs(filepath.ext) :
          LET wr == write_to_file(Self, w.content, w.kind, "a+")
              rd == read_file(wr, "r+")
          IN  /\ wr.err = "ok"
              /\ rd.err = "ok"
              /\ SameValue(w.kind, rd.val, w.content)

\* The contents c1 and c2 of two files of the type of p decode to equal
\* values: equal mappings for a json file, equal text for a raw file.
SameDecoded(p, c1, c2) ==
    IF filetype(p) = "json"
    THEN JsonValid(c1) /\ JsonValid(c2)
         /\ DictEq(json_loads(c1), json_loads(c2))
    ELSE c1 = c2

\* C21: in every state of a session whose file exists, a Copy that succeeds
\* leaves at the path it returns a file whose content decodes to the value
\* the source file held at the time of the call, and leaves the content of
\* the source file as it was.
C21_CopyPreservesContent ==
    (Live /\ Exists(disk, filepath))
    => \A d \in DirDestinations, f \in PlainFilenames, x \in ValidSuffixes :
          LET r == make_copy(Self, d, f, x)
          IN  r.err = "ok" =>
                /\ SameDecoded(filepath, r.disk[NewPath(r)], Here)
                /\ Content(r.disk, r.file, filepath) = Here

\* C22: on a session on a pickle file, a Write of an object in any write mode
\* succeeds, leaves the file holding what it held before followed by the one
\* serialized object, and leaves the session open in binary append mode.
C22_PickleWriteAppends ==
    (Live /\ filetype(filepath) = "pickle" /\ Exists(disk, filepath))
    => \A w \in CodecInputs("pkl"), mode \in TruncModes \cup AppendModes :
          LET r == write_to_file(Self, w.content, w.kind, mode)
          IN  /\ r.err = "ok"
              /\ Content(r.disk, r.file, r.filepath)
                    = Here \o pickle_dumps(w.content, w.kind)
              /\ ~closed(r)
              /\ file_mode(r) = "ab+"

\* The kind of data a handle opened in the mode accepts
ModeKind(m) == IF IsBinary(m) THEN "bytes" ELSE "str"

\* C23: in every state of a session, Open(m) on a session that reports itself
\* open in mode m changes nothing; a successful Open(m) in any other state
\* flushes and drops the old handle and leaves one open handle on the
\* session's path that reports exactly mode m, keeping the content unless m
\* truncates; and a second Open(m), directly or after a write through the
\* handle, is a no-op.
C23_OpenIdempotent ==
    Live
    => \A m \in OpenInputs :
          LET r1 == open_file(Self, m)
              w1 == file_write(r1, <<"a">>, ModeKind(m))
          IN  /\ (~closed(Self) /\ file_mode(Self) = m) => r1 = Self
              /\ r1.err = "ok" =>
                    /\ ~r1.file.none
                    /\ ~closed(r1)
                    /\ r1.file.path = r1.filepath
                    /\ file_mode(r1) = m
                    /\ (Exists(disk, filepath) /\ m \notin TruncModes) =>
                          Content(r1.disk, r1.file, r1.filepath) = Here
                    /\ open_file(r1, m) = r1
                    /\ w1.err = "ok" => open_file(w1, m) = w1

\* C24: in every state of a session, whatever operations succeeded or failed
\* before, a handle that is not null is a handle on the session's current
\* path, and while it is open a file exists at that path.
C24_HandleAtPath ==
    ~file.none
    => /\ file.path = filepath
       /\ ~file.closed => Exists(disk, filepath)

\* A Move has just succeeded: the session holds the handle of the copy in the
\* other directory.
C24_Witness ==
    /\ Live
    /\ ret.op = "Move"
    /\ ret.err = "ok"
    /\ ~file.none
    /\ file.path = filepath
    /\ file_dir(filepath) = "d2"
    /\ Exists(disk, filepath)

\* C25: in every state of a session whose file exists, a Move that succeeds
\* leaves at the session's new path a file whose content decodes to the value
\* the file at the old path held before the call.
C25_MovePreservesContent ==
    (Live /\ Exists(disk, filepath))
    => \A d \in Destinations :
          LET r == move_file(Self, d)
          IN  r.err = "ok" =>
                /\ Exists(r.disk, r.filepath)
                /\ SameDecoded(filepath, Content(r.disk, r.file, r.filepath),
                               Here)

\* C26: in every state of a session, a Copy that fails, whatever its
\* arguments and whatever the reason, leaves the disk with the files it had:
\* no file is added in the destination directory.
C26_FailedCopyAddsNoFile ==
    Live
    => \A d \in Destinations, f \in Filenames, x \in Suffixes :
          LET r == make_copy(Self, d, f, x)
          IN  r.err # "ok" => DOMAIN r.disk = DOMAIN disk

\* The number of files the directory of the destination d holds.
FilesIn(d) == Cardinality({p \in DOMAIN disk : p.dir = d.dir})

\* The plain candidate of a copy followed by the candidates of the first n
\* passes of the collision loop.
CandidatesOf(d, f, x, n) ==
    <<Candidate(d, f, <<>>)>>
    \o TriedPaths(d.dir, CopyName(f), file_ext(filepath), <<x>>, IsNum(x), 1, n)

\* C27: in every state of a session, for every directory, name and valid
\* suffix (numeric or not), the first (number of files in the directory + 1)
\* candidate paths of make_copy are pairwise distinct, one of them is unused,
\* and make_copy creates its file at the first unused one and nowhere else.
C27_CollisionTerminates ==
    Live
    => \A d \in DirDestinations, f \in PlainFilenames, x \in ValidSuffixes :
          LET cs == CandidatesOf(d, f, x, FilesIn(d))
          IN  /\ \A i, j \in 1 .. Len(cs) : cs[i] = cs[j] => i = j
              /\ \E i \in 1 .. Len(cs) :
                    /\ ~Exists(disk, cs[i])
                    /\ \A j \in 1 .. (i - 1) : Exists(disk, cs[j])
                    /\ DOMAIN make_copy(Self, d, f, x).disk
                          = DOMAIN disk \cup {cs[i]}

\* A copy with a non-numeric suffix has just been made on the third candidate,
\* the plain name and the name with the suffix being taken.
C27_Witness ==
    /\ Live
    /\ ret.op = "Copy"
    /\ ret.err = "ok"
    /\ ret.val = <<Path(file_dir(filepath),
                        file_basename(filepath) \o <<Word("copy"), Num(1)>>,
                        file_ext(filepath))>>
    /\ Exists(disk, filepath)
    /\ Exists(disk, Path(file_dir(filepath),
                         file_basename(filepath) \o <<Word("copy")>>,
                         file_ext(filepath)))

====
